---------------------------- MODULE Spec2Model ----------------------------
(***************************************************************************)
(* MarketDataCleaner (src/src/cleaner/cleaner.py): the load / clean / get  *)
(* pipeline over two in-memory tables.                                     *)
(*                                                                         *)
(* A string is a sequence of one-character strings, so that strip, the     *)
(* "." test and rsplit are computed on characters.  A cell is NA (pandas'  *)
(* NaN / pd.NA / NaT), a string Str(s), a number Num(n) or a date Dt(d).   *)
(* A table is [cols, rows]: the set of column names and the sequence of    *)
(* rows, each row a record over cols.  read_csv yields string cells and NA *)
(* for an empty cell; astype(str) turns a missing cell into "nan".         *)
(*                                                                         *)
(* lastCall, result and warnings record the latest call, its outcome (ok   *)
(* or the error raised) and the warning records it logged.  loads counts   *)
(* the load_data() calls that returned, and cleaned_at is the value of     *)
(* loads when self.cleaned_df was last assigned (0: never): both are       *)
(* history variables, the class has no such fields.                        *)
(***************************************************************************)
EXTENDS Integers, Sequences, FiniteSets

VARIABLES validate_active_only, track_dropped_rows, fix_dot_in_symbol,
          market_df, instrument_df, cleaned_df,
          lastCall, result, warnings, loads, cleaned_at

vars == <<validate_active_only, track_dropped_rows, fix_dot_in_symbol,
          market_df, instrument_df, cleaned_df,
          lastCall, result, warnings, loads, cleaned_at>>

config == <<validate_active_only, track_dropped_rows, fix_dot_in_symbol>>

tables == <<market_df, instrument_df, cleaned_df>>

----------------------------------------------------------------------------
(* Bounds of the model *)

\* rows of a loaded table, and load_data() calls, in the pipeline's life cycle
MaxMarketRows == 1

MaxRefRows == 1

MaxLoads == 2

\* rows of a loaded table in the runs over symbols with a "."
MaxDotRows == 2

MaxDotRefRows == 2

\* rows of a loaded table in the runs over price, volume and date cells
MaxValueRows == 2

MaxValueRefRows == 1

----------------------------------------------------------------------------
(* Cells and tables *)

None == [none |-> TRUE]

NA == [na |-> TRUE]

Str(s) == [s |-> s]

Num(n) == [n |-> n]

Dt(d) == [d |-> d]

IsStr(c) == DOMAIN c = {"s"}

Table(cols, rows) == [cols |-> cols, rows |-> rows]

price_cols == <<"OpenPrice", "HighPrice", "LowPrice", "ClosePrice">>

RequiredMarketCols ==
    {"Symbol", "InstrumentType", "Exchange", "OpenPrice", "HighPrice",
     "LowPrice", "ClosePrice", "Volume", "OpenInterest", "Date"}

RefCols == {"Symbol", "InstrumentType", "Exchange", "Status"}

Range(f) == {f[i] : i \in DOMAIN f}

----------------------------------------------------------------------------
(* String operations *)

RECURSIVE lstrip(_)
lstrip(s) == IF s # <<>> /\ Head(s) = " " THEN lstrip(Tail(s)) ELSE s

RECURSIVE rstrip(_)
rstrip(s) ==
    IF s # <<>> /\ s[Len(s)] = " " THEN rstrip(SubSeq(s, 1, Len(s) - 1)) ELSE s

strip(s) == rstrip(lstrip(s))

NanStr == <<"n", "a", "n">>

\* Series.astype(str): a missing cell becomes the string "nan"
astype_str(c) == IF c = NA THEN Str(NanStr) ELSE c

\* Series.astype(str).str.strip()
str_strip(c) == Str(strip(astype_str(c).s))

Contains(s, ch) == \E i \in 1..Len(s) : s[i] = ch

LastIndexOf(s, ch) ==
    CHOOSE i \in 1..Len(s) : s[i] = ch /\ \A j \in (i + 1)..Len(s) : s[j] # ch

\* str.rsplit('.', 1) on a string holding a '.'
rsplit(s) ==
    LET i == LastIndexOf(s, ".")
    IN  <<SubSeq(s, 1, i - 1), SubSeq(s, i + 1, Len(s))>>


----------------------------------------------------------------------------
(* pandas conversions.  The numeric literals of the model are digit        *)
(* strings and its dates are "m-d" strings of two digits; every other      *)
(* string fails to convert and is coerced to NA (errors='coerce').         *)

Digits == <<"0", "1", "2", "3", "4", "5", "6", "7", "8", "9">>

IsDigit(ch) == \E i \in 1..Len(Digits) : Digits[i] = ch

DigitVal(ch) == (CHOOSE i \in 1..Len(Digits) : Digits[i] = ch) - 1

RECURSIVE ParseInt(_)
ParseInt(s) ==
    IF s = <<>> THEN 0
    ELSE 10 * ParseInt(SubSeq(s, 1, Len(s) - 1)) + DigitVal(s[Len(s)])

IsNumeric(s) == s # <<>> /\ \A i \in 1..Len(s) : IsDigit(s[i])

\* pd.to_numeric(col, errors='coerce') on one cell
to_numeric(c) ==
    IF IsStr(c) /\ IsNumeric(c.s) THEN Num(ParseInt(c.s)) ELSE NA

IsDate(s) == Len(s) = 3 /\ IsDigit(s[1]) /\ s[2] = "-" /\ IsDigit(s[3])

\* pd.to_datetime(col, errors='coerce') on one cell
to_datetime(c) ==
    IF IsStr(c) /\ IsDate(c.s)
    THEN Dt(10 * DigitVal(c.s[1]) + DigitVal(c.s[3]))
    ELSE NA

----------------------------------------------------------------------------
(* The stages of clean().  The working table df is a sequence of           *)
(* [idx, r]: the row's index label (read_csv's RangeIndex) and its cells.  *)

\* df = self.market_df.copy()
WithIndex(rows) == [i \in DOMAIN rows |-> [idx |-> i - 1, r |-> rows[i]]]

\* Normalize string fields; an empty Exchange becomes pd.NA
NormalizeRow(r) ==
    [r EXCEPT !.Symbol = str_strip(@),
              !.InstrumentType = str_strip(@),
              !.Exchange = LET e == str_strip(@)
                           IN  IF e = Str(<<>>) THEN NA ELSE e]

Normalize(df) == [i \in DOMAIN df |-> [df[i] EXCEPT !.r = NormalizeRow(@)]]

\* the body of the iterrows loop of the dot-in-symbol fix
FixDotRow(r) ==
    IF Contains(r.Symbol.s, ".")
    THEN LET parts == rsplit(r.Symbol.s)
         IN  IF parts[1] # <<>> /\ parts[2] # <<>>
             THEN [r EXCEPT !.Symbol = Str(parts[1]), !.Exchange = Str(parts[2])]
             ELSE r
    ELSE r

FixDotInSymbol(df, enabled) ==
    IF enabled
    THEN [i \in DOMAIN df |-> [df[i] EXCEPT !.r = FixDotRow(@)]]
    ELSE df

\* df.dropna(how='all')
AllMissing(r) == \A c \in DOMAIN r : r[c] = NA

dropna_all(df) == SelectSeq(df, LAMBDA e : ~AllMissing(e.r))

\* df.drop_duplicates(): the first occurrence of each row is kept
drop_duplicates(df) ==
    LET FirstAt(i) == \A j \in 1..(i - 1) : df[j].r # df[i].r
        Pos == {i \in DOMAIN df : FirstAt(i)}
        RECURSIVE Pick(_)
        Pick(i) == IF i > Len(df) THEN <<>>
                   ELSE IF i \in Pos THEN <<df[i]>> \o Pick(i + 1)
                   ELSE Pick(i + 1)
    IN  Pick(1)

Deduplicate(df) == drop_duplicates(dropna_all(df))

\* pd.to_numeric on the four price columns, Volume and OpenInterest
CoerceRow(r) ==
    [r EXCEPT !.OpenPrice = to_numeric(@), !.HighPrice = to_numeric(@),
              !.LowPrice = to_numeric(@), !.ClosePrice = to_numeric(@),
              !.Volume = to_numeric(@), !.OpenInterest = to_numeric(@)]

Coerce(df) == [i \in DOMAIN df |-> [df[i] EXCEPT !.r = CoerceRow(@)]]

\* Volume and OpenInterest added to the subset
Complete_WithVolume(r) ==
    /\ \A k \in 1..Len(price_cols) : r[price_cols[k]] # NA
    /\ r.Date # NA
    /\ r.Volume # NA
    /\ r.OpenInterest # NA

\* df.dropna(subset=price_cols + ['Date'])
Complete(r) ==
    /\ \A k \in 1..Len(price_cols) : r[price_cols[k]] # NA
    /\ r.Date # NA

dropna_subset(df) == SelectSeq(df, LAMBDA e : Complete(e.r))

\* dropped = df[~df.index.isin(df_valid.index)]
DroppedRows(df, df_valid) ==
    SelectSeq(df, LAMBDA e : \A k \in 1..Len(df_valid) : df_valid[k].idx # e.idx)

\* df['Date'] = pd.to_datetime(...); df = df[df['Date'].notnull()]
ParseDates(df) ==
    SelectSeq([i \in DOMAIN df |-> [df[i] EXCEPT !.r.Date = to_datetime(@)]],
              LAMBDA e : e.r.Date # NA)


Active == Str(<<"A", "c", "t", "i", "v", "e">>)

\* the status filter left out
EffectiveRef_NoStatusFilter(ref_rows, active_only) == ref_rows

\* ref = self.instrument_df.copy(); ref = ref[ref['Status'] == 'Active']
EffectiveRef(ref_rows, active_only) ==
    IF active_only
    THEN SelectSeq(ref_rows, LAMBDA r : r.Status = Active)
    ELSE ref_rows

\* self.instrument_df['Symbol'] / ['InstrumentType'] = ...astype(str).str.strip()
NormalizeRefRow(r) ==
    [r EXCEPT !.Symbol = str_strip(@), !.InstrumentType = str_strip(@)]

NormalizeRef(ref_rows) == [i \in DOMAIN ref_rows |-> NormalizeRefRow(ref_rows[i])]

Key(r) == <<r.Symbol, r.InstrumentType, r.Exchange>>

Keys(rows) == {Key(rows[i]) : i \in DOMAIN rows}

\* the rows one left row contributes to an inner merge: one per matching
\* right row
RECURSIVE Matches(_, _)
Matches(r, ref) ==
    IF ref = <<>> THEN <<>>
    ELSE (IF Key(Head(ref)) = Key(r) THEN <<r>> ELSE <<>>) \o Matches(r, Tail(ref))

\* df.merge(ref[['Symbol', 'InstrumentType', 'Exchange']], on=[...], how='inner')
RECURSIVE merge(_, _)
merge(df, ref) ==
    IF df = <<>> THEN <<>>
    ELSE Matches(Head(df).r, ref) \o merge(Tail(df), ref)

\* unmatched = df[~df.set_index(keys).index.isin(validated.set_index(keys).index)]
Unmatched(df, validated) ==
    SelectSeq(df, LAMBDA e : Key(e.r) \notin Keys(validated))

Warning(reason, row) == [reason |-> reason, row |-> row]

MissingReason == "Dropped row due to missing price or date"

ReferenceReason == "Dropped row due to invalid instrument reference"

WarnAll(reason, df) == [i \in DOMAIN df |-> Warning(reason, df[i].r)]

\* the working table after the normalizer stage (lines 29-52)
Normalized(market_rows, fix_dot) ==
    FixDotInSymbol(Normalize(WithIndex(market_rows)), fix_dot)

\* the working table entering the completeness filter (lines 54-64)
Coerced(market_rows, fix_dot) ==
    Coerce(Deduplicate(Normalized(market_rows, fix_dot)))

\* the working table entering the reference validation (lines 66-76)
Dated(market_rows, fix_dot) ==
    ParseDates(dropna_subset(Coerced(market_rows, fix_dot)))

\* one run of clean() over loaded tables that hold every column: the rows
\* assigned to self.cleaned_df and the warning records logged
CleanRun(market_rows, ref_rows, active_only, track, fix_dot) ==
    LET df == Coerced(market_rows, fix_dot)
        df_valid == dropna_subset(df)
        dated == ParseDates(df_valid)
        ref == EffectiveRef(ref_rows, active_only)
        validated == merge(dated, ref)
    IN  [validated |-> validated,
         warnings |->
            IF track
            THEN WarnAll(MissingReason, DroppedRows(df, df_valid))
                 \o WarnAll(ReferenceReason, Unmatched(dated, validated))
            ELSE <<>>]

----------------------------------------------------------------------------
(* The pipeline *)

\* __init__
Init ==
    /\ validate_active_only \in BOOLEAN
    /\ track_dropped_rows \in BOOLEAN
    /\ fix_dot_in_symbol \in BOOLEAN
    /\ market_df = None
    /\ instrument_df = None
    /\ cleaned_df = None
    /\ lastCall = "__init__"
    /\ result = "ok"
    /\ warnings = <<>>
    /\ loads = 0
    /\ cleaned_at = 0

\* load_data: both files are read
LoadData(m, r) ==
    /\ market_df' = m
    /\ instrument_df' = r
    /\ loads' = loads + 1
    /\ lastCall' = "load_data"
    /\ result' = "ok"
    /\ warnings' = <<>>
    /\ UNCHANGED <<config, cleaned_df, cleaned_at>>

\* load_data: read_csv raises on the market file
LoadDataMarketUnreadable ==
    /\ lastCall' = "load_data"
    /\ result' = "LoadError"
    /\ warnings' = <<>>
    /\ UNCHANGED <<config, tables, loads, cleaned_at>>

\* load_data: read_csv raises on the reference file, after market_df is set
LoadDataReferenceUnreadable(m) ==
    /\ market_df' = m
    /\ lastCall' = "load_data"
    /\ result' = "LoadError"
    /\ warnings' = <<>>
    /\ UNCHANGED <<config, instrument_df, cleaned_df, loads, cleaned_at>>

NotLoaded(m, i) == m = None \/ i = None

\* the guard of get_clean_data and summary left out
NotCleaned_Never(c) == FALSE

NotCleaned(c) == c = None

\* the first subscript of a missing market column raises KeyError
MissingColumn(m) == ~(RequiredMarketCols \subseteq m.cols)

\* self.cleaned_df assigned before the columns are read
CleanedOnError_Assigned(c) == Table({}, <<>>)

\* what a clean() that raises leaves in self.cleaned_df: the raise comes
\* before the only assignment, so the field keeps its value
CleanedOnError(c) == c

Clean ==
    /\ lastCall' = "clean"
    /\ UNCHANGED <<config, market_df, loads>>
    /\ IF NotLoaded(market_df, instrument_df)
       THEN /\ result' = "NotLoaded"
            /\ warnings' = <<>>
            /\ cleaned_df' = CleanedOnError(cleaned_df)
            /\ UNCHANGED <<instrument_df, cleaned_at>>
       ELSE IF MissingColumn(market_df)
       THEN /\ result' = "KeyError"
            /\ warnings' = <<>>
            /\ cleaned_df' = CleanedOnError(cleaned_df)
            /\ UNCHANGED <<instrument_df, cleaned_at>>
       ELSE LET run == CleanRun(market_df.rows, instrument_df.rows,
                                validate_active_only, track_dropped_rows,
                                fix_dot_in_symbol)
            IN  /\ result' = "ok"
                /\ warnings' = run.warnings
                /\ instrument_df' = [instrument_df EXCEPT !.rows = NormalizeRef(@)]
                /\ cleaned_df' = Table(market_df.cols, run.validated)
                /\ cleaned_at' = loads

GetCleanData ==
    /\ lastCall' = "get_clean_data"
    /\ result' = IF NotCleaned(cleaned_df) THEN "NotCleaned" ELSE "ok"
    /\ warnings' = <<>>
    /\ UNCHANGED <<config, tables, loads, cleaned_at>>

Summary ==
    /\ lastCall' = "summary"
    /\ result' = IF NotCleaned(cleaned_df) THEN "NotCleaned" ELSE "ok"
    /\ warnings' = <<>>
    /\ UNCHANGED <<config, tables, loads, cleaned_at>>


----------------------------------------------------------------------------
(* Inputs: the tables read_csv can hand to load_data *)

SeqsUpTo(S, n) == UNION {[1..k -> S] : k \in 0..n}

MarketRow(sym, typ, exch, o, h, l, c, vol, oi, date) ==
    [Symbol |-> sym, InstrumentType |-> typ, Exchange |-> exch,
     OpenPrice |-> o, HighPrice |-> h, LowPrice |-> l, ClosePrice |-> c,
     Volume |-> vol, OpenInterest |-> oi, Date |-> date]

RefRow(sym, typ, exch, status) ==
    [Symbol |-> sym, InstrumentType |-> typ, Exchange |-> exch, Status |-> status]

Inactive == Str(<<"I", "n", "a", "c", "t", "i", "v", "e">>)

One == Str(<<"1">>)

Two == Str(<<"2", "0">>)

Bad == Str(<<"x">>)

Day == Str(<<"4", "-", "1">>)

\* a market row with valid prices, volume and date
Quote(sym, exch) == MarketRow(sym, Str(<<"S">>), exch, One, Two, One, Two, Two, One, Day)

\* a market row of instrument A on exchange N
Priced(o, h, l, c, vol, oi, date) ==
    MarketRow(Str(<<"A">>), Str(<<"S">>), Str(<<"N">>), o, h, l, c, vol, oi, date)

Restrict(r, cols) == [c \in cols |-> r[c]]

\* market files that lack required columns
BrokenMarketTables ==
    {Table(RequiredMarketCols \ {c},
           <<Restrict(Quote(Str(<<"A">>), Str(<<"N">>)), RequiredMarketCols \ {c})>>)
        : c \in RequiredMarketCols}
    \cup {Table({"Symbol", "Exchange", "OpenPrice", "Date"},
                <<Restrict(Quote(Str(<<"A">>), Str(<<"N">>)),
                           {"Symbol", "Exchange", "OpenPrice", "Date"})>>)}

MarketTables(Rows, n) == {Table(RequiredMarketCols, rows) : rows \in SeqsUpTo(Rows, n)}

RefTables(Rows, n) == {Table(RefCols, rows) : rows \in SeqsUpTo(Rows, n)}

\* life cycle: a clean row and a row with a padded symbol and a bad price;
\* a reference row as the market names it, and the same row padded
LifeMarketRows ==
    {Quote(Str(<<"A">>), Str(<<"N">>)),
     MarketRow(Str(<<" ", "A", " ">>), Str(<<"S">>), Str(<<"N">>),
               Bad, Two, One, Two, Two, One, Day)}

LifeRefRows ==
    {RefRow(Str(<<"A">>), Str(<<"S">>), Str(<<"N">>), Active),
     RefRow(Str(<<"A", " ">>), Str(<<" ", "S">>), Str(<<"N">>), Active)}

LifeMarkets == MarketTables(LifeMarketRows, MaxMarketRows) \cup BrokenMarketTables

LifeRefs == RefTables(LifeRefRows, MaxRefRows)

\* symbols with a ".", against a blank, a missing and a filled Exchange
DotMarketRows ==
    {Quote(Str(<<"A">>), Str(<<"N">>)),
     Quote(Str(<<"A", ".", "N">>), Str(<<" ">>)),
     Quote(Str(<<"A", ".", "N">>), NA),
     Quote(Str(<<"A", ".", "N">>), Str(<<"X">>)),
     Quote(Str(<<"A", ".", "B", ".", "N">>), Str(<<" ">>)),
     Quote(Str(<<"A", ".">>), Str(<<" ">>)),
     Quote(Str(<<".", "N">>), NA),
     Quote(Str(<<" ", "A", ".", "N">>), Str(<<"N">>))}

DotRefRows ==
    {RefRow(Str(<<"A">>), Str(<<"S">>), Str(<<"N">>), Active),
     RefRow(Str(<<"A", ".", "N">>), Str(<<"S">>), Str(<<"X">>), Active),
     RefRow(Str(<<"A", ".", "N">>), Str(<<"S">>), Str(<<"N">>), Inactive)}

DotMarkets == MarketTables(DotMarketRows, MaxDotRows)

DotRefs == RefTables(DotRefRows, MaxDotRefRows)

\* every price, Volume, OpenInterest and Date cell: valid, unparsable, missing
ValueMarketRows ==
    {Priced(One, Two, One, Two, Two, One, Day),
     Priced(Bad, Two, One, Two, Two, One, Day),
     Priced(One, NA, One, Two, Two, One, Day),
     Priced(One, Two, Bad, Two, Two, One, Day),
     Priced(One, Two, One, NA, Two, One, Day),
     Priced(One, Two, One, Two, Bad, NA, Day),
     Priced(One, Two, One, Two, Two, One, Bad),
     Priced(One, Two, One, Two, Two, One, NA)}

ValueRefRows ==
    {RefRow(Str(<<"A">>), Str(<<"S">>), Str(<<"N">>), Active),
     RefRow(Str(<<"A">>), Str(<<"S">>), Str(<<"N">>), Inactive)}

ValueMarkets == MarketTables(ValueMarketRows, MaxValueRows)

ValueRefs == RefTables(ValueRefRows, MaxValueRefRows)

----------------------------------------------------------------------------
(* Specifications *)

\* any sequence of calls on one instance
Next ==
    \/ loads < MaxLoads /\ \E m \in LifeMarkets, r \in LifeRefs : LoadData(m, r)
    \/ LoadDataMarketUnreadable
    \/ \E m \in LifeMarkets : LoadDataReferenceUnreadable(m)
    \/ Clean
    \/ GetCleanData
    \/ Summary

Spec == Init /\ [][Next]_vars

\* one dataset per instance, as main.py uses the class: load_data once, then
\* clean, summary and get_clean_data; track_dropped_rows at its default
InitDot == Init /\ ~track_dropped_rows

NextDot ==
    \/ loads = 0 /\ \E m \in DotMarkets, r \in DotRefs : LoadData(m, r)
    \/ Clean
    \/ GetCleanData
    \/ Summary

SpecDot == InitDot /\ [][NextDot]_vars

\* the same use over the value cells; fix_dot_in_symbol at its default
InitValue == Init /\ ~fix_dot_in_symbol

NextValue ==
    \/ loads = 0 /\ \E m \in ValueMarkets, r \in ValueRefs : LoadData(m, r)
    \/ Clean
    \/ GetCleanData
    \/ Summary

SpecValue == InitValue /\ [][NextValue]_vars


----------------------------------------------------------------------------
(* Properties *)

Loaded == market_df # None /\ instrument_df # None

CleanedOk == lastCall = "clean" /\ result = "ok"

\* C1: calling clean() twice in a row with no load_data() in between yields
\* identical cleaned tables.
C1_CleanTwiceSameTable ==
    [][(CleanedOk /\ lastCall' = "clean") => cleaned_df' = cleaned_df]_vars

\* the (Symbol, InstrumentType, Exchange) triples of the reference table,
\* restricted to Status == "Active" when validate_active_only is set
EffectiveKeys(ref_rows, active_only) ==
    {Key(ref_rows[i]) : i \in {j \in DOMAIN ref_rows :
                                  active_only => ref_rows[j].Status = Active}}

\* C2: after a successful clean(), every row of the cleaned table has a
\* triple that is the triple of some row of the effective reference set.
C2_OutputTriplesInReference ==
    [][(lastCall' = "clean" /\ result' = "ok")
         => Keys(cleaned_df'.rows)
              \subseteq EffectiveKeys(instrument_df.rows, validate_active_only)]_vars

C2_Witness ==
    /\ CleanedOk
    /\ validate_active_only
    /\ cleaned_df.rows # <<>>

\* C3: rows of the cleaned table <= market rows left after deduplication
\* <= raw market rows.
C3_RowCounts ==
    [][(lastCall' = "clean" /\ result' = "ok")
         => LET deduped == Deduplicate(Normalized(market_df.rows, fix_dot_in_symbol))
            IN  /\ Len(cleaned_df'.rows) <= Len(deduped)
                /\ Len(deduped) <= Len(market_df.rows)]_vars

\* C4: clean() raises the not-loaded error whenever a table is not loaded,
\* get_clean_data() and summary() raise the not-cleaned error whenever no
\* clean() has completed, and a call raising either changes no stored table.
C4_StateErrors ==
    [][/\ (lastCall' = "clean" /\ ~Loaded) => result' = "NotLoaded"
       /\ (lastCall' \in {"get_clean_data", "summary"} /\ cleaned_at = 0)
             => result' = "NotCleaned"
       /\ result' \in {"NotLoaded", "NotCleaned"} => UNCHANGED tables]_vars

C4_Witness ==
    /\ lastCall = "clean"
    /\ result = "NotLoaded"
    /\ market_df # None
    /\ instrument_df = None

PricesConvert(r) ==
    \A k \in 1..Len(price_cols) : IsStr(r[price_cols[k]]) /\ IsNumeric(r[price_cols[k]].s)

DateParses(r) == IsStr(r.Date) /\ IsDate(r.Date.s)

\* the row as the cleaned table holds it
Converted(r) == [CoerceRow(r) EXCEPT !.Date = to_datetime(@)]

\* C5: a deduplicated market row whose triple is in the effective reference
\* set is in the cleaned table iff its four prices convert and its Date
\* parses; Volume and OpenInterest never drop it and no cell raises.
C5_CompletenessFilter ==
    [][(lastCall' = "clean" /\ Loaded /\ RequiredMarketCols \subseteq market_df.cols)
         => /\ result' = "ok"
            /\ \A e \in Range(Deduplicate(Normalized(market_df.rows, fix_dot_in_symbol))) :
                 Key(e.r) \in EffectiveKeys(instrument_df.rows, validate_active_only)
                   => ((Converted(e.r) \in Range(cleaned_df'.rows))
                         <=> (PricesConvert(e.r) /\ DateParses(e.r)))]_vars

C5_Witness ==
    /\ CleanedOk
    /\ \E k \in DOMAIN cleaned_df.rows :
         cleaned_df.rows[k].Volume = NA /\ cleaned_df.rows[k].OpenInterest = NA
    /\ \E i \in DOMAIN market_df.rows : ~PricesConvert(market_df.rows[i])

BlankOrMissing(c) == c = NA \/ strip(c.s) = <<>>

\* the row the normalizer stage is to yield for a loaded row
ClaimedNormalized(raw, fix_dot) ==
    LET n == NormalizeRow(raw)
        parts == rsplit(n.Symbol.s)
    IN  IF /\ fix_dot
           /\ Contains(n.Symbol.s, ".")
           /\ BlankOrMissing(raw.Exchange)
           /\ parts[1] # <<>>
           /\ parts[2] # <<>>
        THEN [n EXCEPT !.Symbol = Str(parts[1]), !.Exchange = Str(parts[2])]
        ELSE n

\* C6: with fix_dot_in_symbol, clean() rewrites Symbol and Exchange exactly
\* when the Symbol holds a ".", the Exchange is missing or blank and both
\* parts are non-empty; every other row keeps both; without the flag no row
\* is rewritten.
C6_DotFixOnlyOnBlankExchange ==
    CleanedOk =>
        \A i \in DOMAIN market_df.rows :
            Normalized(market_df.rows, fix_dot_in_symbol)[i].r
                = ClaimedNormalized(market_df.rows[i], fix_dot_in_symbol)

\* C7: with a required market column missing, clean() raises the
\* field-not-found error and does not assign the cleaned table; with no
\* earlier successful clean() a following get_clean_data() raises the
\* not-cleaned error.
C7_MissingColumnRaises ==
    [][/\ (lastCall' = "clean" /\ Loaded /\ ~(RequiredMarketCols \subseteq market_df.cols))
            => (result' = "KeyError" /\ cleaned_df' = cleaned_df)
       /\ (lastCall = "clean" /\ result = "KeyError" /\ cleaned_at = 0
             /\ lastCall' = "get_clean_data")
            => result' = "NotCleaned"]_vars

C7_Witness ==
    /\ lastCall = "clean"
    /\ result = "KeyError"
    /\ cleaned_at = 0
    /\ cleaned_df = None

\* C8: after load_data() and before the next successful clean(),
\* get_clean_data() and summary() raise the not-cleaned error.
C8_LoadResetsCleaned ==
    (lastCall \in {"get_clean_data", "summary"} /\ result = "ok")
        => cleaned_at = loads

\* C9: a market row with valid prices and date whose triple equals that of
\* an effective reference row with Symbol and InstrumentType trimmed is in
\* the cleaned table, on the first clean() as on any later one.
C9_ReferenceTrimmedBeforeMatch ==
    [][(lastCall' = "clean" /\ result' = "ok")
         => \A e \in Range(Dated(market_df.rows, fix_dot_in_symbol)) :
              Key(e.r) \in EffectiveKeys(NormalizeRef(instrument_df.rows),
                                         validate_active_only)
                => e.r \in Range(cleaned_df'.rows)]_vars

\* the rows the completeness filter removes: a price or the Date missing
\* after conversion
Incomplete(df) ==
    SelectSeq(df, LAMBDA e : ~Complete(e.r) \/ to_datetime(e.r.Date) = NA)

\* C10: with track_dropped_rows, every row removed by the completeness
\* filter yields exactly one warning with the row's values and the
\* missing-price-or-date reason; without it there is none.
C10_EveryIncompleteRowWarned ==
    [][(lastCall' = "clean" /\ result' = "ok")
         => SelectSeq(warnings', LAMBDA w : w.reason = MissingReason)
              = IF track_dropped_rows
                THEN WarnAll(MissingReason,
                             Incomplete(Coerced(market_df.rows, fix_dot_in_symbol)))
                ELSE <<>>]_vars

============================================================================
